---- MODULE Spec2Model ----
(***************************************************************************)
(* Model of contracts/job_board/src/contract.rs: a pausable, owner-gated   *)
(* fungible token (ExampleContract).  State is the contract's persisted    *)
(* storage; every entrypoint is one atomic action (the host serialises     *)
(* invocations and rolls a panicking invocation back).                     *)
(*                                                                         *)
(* The entrypoints of contract.rs are translated from the source.  The     *)
(* helpers they call into (stellar_tokens::fungible::Base,                 *)
(* stellar_contract_utils::pausable, the host's require_auth, storage      *)
(* rollback and ledger sequence) are not part of the source tree; they are *)
(* modelled from the design document, sections 4 to 7.                     *)
(***************************************************************************)
EXTENDS Integers, FiniteSets, Sequences, TLC

\* ------------------------------------------------------------------ bounds
\* Stand-in for i128::MAX: amounts live in -I128_MAX-1 .. I128_MAX and a
\* checked addition beyond I128_MAX overflows.
I128_MAX == 2
\* The ledger sequence counter runs over 0 .. MaxLedger.
MaxLedger == 1

Addr == {"A", "B"}
None == "none"

\* Inputs of the entrypoints.
Amounts == -1 .. I128_MAX
Ledgers == 0 .. MaxLedger
\* Wasm hashes: "v0" is the deployed code.
Hashes == {"v0", "v1"}
\* The identities whose authorization proof accompanies an invocation: an
\* invocation is signed by one identity (no entrypoint asks for two proofs).
Proofs == {{a} : a \in Addr}

VARIABLES
    deployed,      \* has __constructor run to completion
    store,         \* the contract's persisted state (see the fields below)
    ledger,        \* the host's ledger sequence
    last,          \* the result of the invocation just run, until it is returned
    budget         \* audit per <<owner, spender>>: the amount of the latest
                   \* approve less what transfer_from / burn_from spent since

vars == <<deployed, store, ledger, last, budget>>

\* ------------------------------------------------------------- the storage
\* The fields of the persisted state.
Store == store
owner == store.owner                \* instance storage OWNER
paused == store.paused              \* pausable's PAUSED flag
total_supply == store.total_supply  \* Base's total supply
balances == store.balances          \* Base's balance per address
allowances == store.allowances      \* Base's allowance per <<owner, spender>>
metadata == store.metadata          \* Base's metadata
code_version == store.code_version  \* the wasm hash the instance runs

NoAllowance == [amount |-> 0, live_until |-> 0]
NoMetadata == [decimals |-> 0, name |-> "", symbol |-> ""]

EmptyStore ==
    [owner |-> None, paused |-> FALSE, total_supply |-> 0,
     balances |-> [a \in Addr |-> 0],
     allowances |-> [p \in Addr \X Addr |-> NoAllowance],
     metadata |-> NoMetadata, code_version |-> "v0"]

\* The outcome of running (part of) an invocation on a working copy s of the
\* storage: it ran on, or it panicked with error e leaving the working copy s.
Ok(s) == [res |-> "ok", st |-> s]
Panic(e, s) == [res |-> e, st |-> s]

\* --------------------------------------------------------- host primitives
\* Address::require_auth: the invocation carries a valid proof for a.
require_auth(s, a, proofs) ==
    IF a \in proofs THEN Ok(s) ELSE Panic("AuthFailed", s)

\* storage().instance().get(&OWNER).expect("owner should be set") / .unwrap()
get_owner(s) ==
    IF s.owner = None THEN Panic("NotInitialized", s) ELSE Ok(s)

\* The host commits the working copy of a successful invocation and discards
\* that of a panicking one: s0 is the storage the invocation started from.
\* (Mutant: a host that keeps the working copy of a panicking invocation.)
InvokeKeepsDirty(r, s0) == r
Invoke(r, s0) ==
    IF r.res = "ok" THEN r ELSE [res |-> r.res, st |-> s0]

\* ---------------------------------------------------------------- pausable
\* #[when_not_paused]: pausable::when_not_paused(e) as the first statement.
when_not_paused(s) ==
    IF s.paused THEN Panic("ContractPaused", s) ELSE Ok(s)

\* pausable::pause(e): asserts the flag (re-pausing re-asserts it).
pausable_pause(s) == Ok([s EXCEPT !.paused = TRUE])

\* pausable::unpause(e)
pausable_unpause(s) == Ok([s EXCEPT !.paused = FALSE])

\* ------------------------------------------------------------- Base ledger
\* (Mutant: a mint that does not reject a negative amount.)
Base_mint_Unchecked(s, to, amount) ==
    IF s.total_supply + amount > I128_MAX \/ s.balances[to] + amount > I128_MAX
    THEN Panic("ArithmeticOverflow", s)
    ELSE Ok([s EXCEPT !.total_supply = @ + amount,
                      !.balances[to] = @ + amount])

\* Base::mint(e, to, amount)
Base_mint(s, to, amount) ==
    IF amount < 0 THEN Panic("LessThanZero", s)
    ELSE IF s.total_supply + amount > I128_MAX
              \/ s.balances[to] + amount > I128_MAX
         THEN Panic("ArithmeticOverflow", s)
    ELSE Ok([s EXCEPT !.total_supply = @ + amount,
                      !.balances[to] = @ + amount])

\* Base::transfer's ledger update (after from.require_auth()).
Base_move(s, from, to, amount) ==
    IF amount < 0 THEN Panic("LessThanZero", s)
    ELSE IF s.balances[from] < amount THEN Panic("InsufficientBalance", s)
    ELSE LET s1 == [s EXCEPT !.balances[from] = @ - amount]
         IN  Ok([s1 EXCEPT !.balances[to] = @ + amount])

\* (Mutant: a burn that debits the holder and forgets the total supply.)
Base_destroy_KeepsSupply(s, from, amount) ==
    IF amount < 0 THEN Panic("LessThanZero", s)
    ELSE IF s.balances[from] < amount THEN Panic("InsufficientBalance", s)
    ELSE Ok([s EXCEPT !.balances[from] = @ - amount])

\* Base::burn's ledger update (after from.require_auth()).
Base_destroy(s, from, amount) ==
    IF amount < 0 THEN Panic("LessThanZero", s)
    ELSE IF s.balances[from] < amount THEN Panic("InsufficientBalance", s)
    ELSE Ok([s EXCEPT !.balances[from] = @ - amount,
                      !.total_supply = @ - amount])

\* Base::spend_allowance(e, owner, spender, amount) at ledger sequence now.
Base_spend_allowance(s, o, sp, amount, now) ==
    LET al == s.allowances[<<o, sp>>]
    IN  IF amount < 0 THEN Panic("LessThanZero", s)
        ELSE IF al.live_until < now THEN Panic("AllowanceExpired", s)
        ELSE IF al.amount < amount THEN Panic("InsufficientAllowance", s)
        ELSE Ok([s EXCEPT !.allowances[<<o, sp>>].amount = @ - amount])

\* Base::transfer(e, from, to, amount)
Base_transfer(s, from, to, amount, proofs) ==
    LET r1 == require_auth(s, from, proofs)
    IN  IF r1.res # "ok" THEN r1 ELSE Base_move(r1.st, from, to, amount)

\* Base::transfer_from(e, spender, from, to, amount)
Base_transfer_from(s, sp, from, to, amount, proofs, now) ==
    LET r1 == require_auth(s, sp, proofs)
        r2 == Base_spend_allowance(r1.st, from, sp, amount, now)
    IN  IF r1.res # "ok" THEN r1
        ELSE IF r2.res # "ok" THEN r2
        ELSE Base_move(r2.st, from, to, amount)

\* Base::approve(e, owner, spender, amount, live_until_ledger)
Base_approve(s, o, sp, amount, live_until, proofs) ==
    LET r1 == require_auth(s, o, proofs)
    IN  IF r1.res # "ok" THEN r1
        ELSE IF amount < 0 THEN Panic("LessThanZero", s)
        ELSE Ok([s EXCEPT !.allowances[<<o, sp>>] =
                     [amount |-> amount, live_until |-> live_until]])

\* Base::burn(e, from, amount)
Base_burn(s, from, amount, proofs) ==
    LET r1 == require_auth(s, from, proofs)
    IN  IF r1.res # "ok" THEN r1 ELSE Base_destroy(r1.st, from, amount)

\* Base::burn_from(e, spender, from, amount)
Base_burn_from(s, sp, from, amount, proofs, now) ==
    LET r1 == require_auth(s, sp, proofs)
        r2 == Base_spend_allowance(r1.st, from, sp, amount, now)
    IN  IF r1.res # "ok" THEN r1
        ELSE IF r2.res # "ok" THEN r2
        ELSE Base_destroy(r2.st, from, amount)

\* Base::set_metadata(e, 18, "JobBoardToken", "JBT")
Base_set_metadata(s) ==
    Ok([s EXCEPT !.metadata =
            [decimals |-> 18, name |-> "JobBoardToken", symbol |-> "JBT"]])

\* deployer().update_current_contract_wasm(new_wasm_hash)
update_current_contract_wasm(s, h) == Ok([s EXCEPT !.code_version = h])

\* ------------------------------------------------- contract.rs entrypoints
\* (Mutant: a constructor that does not store the owner.)
constructor_NoOwner(s, o, initial_supply) ==
    Base_mint(Base_set_metadata(s).st, o, initial_supply)

\* ExampleContract::__constructor(e, owner, initial_supply)
constructor(s, o, initial_supply) ==
    LET r1 == Base_set_metadata(s)
        r2 == Base_mint(r1.st, o, initial_supply)
    IN  IF r2.res # "ok" THEN r2
        ELSE Ok([r2.st EXCEPT !.owner = o])

\* (Mutant: mint checking the owner's authorization before the pause gate.)
mint_OwnerFirst(s, account, amount, proofs) ==
    LET r0 == when_not_paused(s)
        r1 == get_owner(s)
        r2 == require_auth(s, s.owner, proofs)
    IN  IF r1.res # "ok" THEN r1
        ELSE IF r2.res # "ok" THEN r2
        ELSE IF r0.res # "ok" THEN r0
        ELSE Base_mint(s, account, amount)

\* (Mutant: mint crediting the stored owner instead of account.)
mint_ToOwner(s, account, amount, proofs) ==
    LET r0 == when_not_paused(s)
        r1 == get_owner(s)
        r2 == require_auth(s, s.owner, proofs)
    IN  IF r0.res # "ok" THEN r0
        ELSE IF r1.res # "ok" THEN r1
        ELSE IF r2.res # "ok" THEN r2
        ELSE Base_mint(s, s.owner, amount)

\* ExampleContract::mint(e, account, amount)
mint(s, account, amount, proofs) ==
    LET r0 == when_not_paused(s)
        r1 == get_owner(s)
        r2 == require_auth(s, s.owner, proofs)
    IN  IF r0.res # "ok" THEN r0
        ELSE IF r1.res # "ok" THEN r1
        ELSE IF r2.res # "ok" THEN r2
        ELSE Base_mint(s, account, amount)

\* (Mutant: upgrade put behind the pause gate.)
upgrade_Gated(s, h, proofs) ==
    LET r0 == when_not_paused(s)
        r2 == require_auth(s, s.owner, proofs)
    IN  IF r0.res # "ok" THEN r0
        ELSE IF r2.res # "ok" THEN r2
        ELSE update_current_contract_wasm(s, h)

\* ExampleContract::upgrade(env, new_wasm_hash)
upgrade(s, h, proofs) ==
    LET r1 == get_owner(s)
        r2 == require_auth(s, s.owner, proofs)
    IN  IF r1.res # "ok" THEN r1
        ELSE IF r2.res # "ok" THEN r2
        ELSE update_current_contract_wasm(s, h)

\* (Mutant: pause without caller.require_auth().)
pause_NoAuth(s, caller, proofs) ==
    LET r2 == get_owner(s)
    IN  IF r2.res # "ok" THEN r2
        ELSE IF s.owner # caller THEN Panic("Unauthorized", s)
        ELSE pausable_pause(s)

\* (Mutant: pause ending in pausable::unpause, as unpause does.)
pause_Unpauses(s, caller, proofs) ==
    LET r1 == require_auth(s, caller, proofs)
        r2 == get_owner(s)
    IN  IF r1.res # "ok" THEN r1
        ELSE IF r2.res # "ok" THEN r2
        ELSE IF s.owner # caller THEN Panic("Unauthorized", s)
        ELSE pausable_unpause(s)

\* (Mutant: pause put behind the pause gate, so that a second pause fails.)
pause_Gated(s, caller, proofs) ==
    LET r0 == when_not_paused(s)
        r1 == require_auth(s, caller, proofs)
    IN  IF r0.res # "ok" THEN r0
        ELSE IF r1.res # "ok" THEN r1
        ELSE IF s.owner # caller THEN Panic("Unauthorized", s)
        ELSE pausable_pause(s)

\* Pausable::pause(e, caller)
pause(s, caller, proofs) ==
    LET r1 == require_auth(s, caller, proofs)
        r2 == get_owner(s)
    IN  IF r1.res # "ok" THEN r1
        ELSE IF r2.res # "ok" THEN r2
        ELSE IF s.owner # caller THEN Panic("Unauthorized", s)
        ELSE pausable_pause(s)

\* (Mutant: unpause without the comparison of the caller with the owner.)
unpause_AnyCaller(s, caller, proofs) ==
    LET r1 == require_auth(s, caller, proofs)
    IN  IF r1.res # "ok" THEN r1 ELSE pausable_unpause(s)

\* Pausable::unpause(e, caller)
unpause(s, caller, proofs) ==
    LET r1 == require_auth(s, caller, proofs)
        r2 == get_owner(s)
    IN  IF r1.res # "ok" THEN r1
        ELSE IF r2.res # "ok" THEN r2
        ELSE IF s.owner # caller THEN Panic("Unauthorized", s)
        ELSE pausable_unpause(s)

\* (Mutant: transfer handing from and to to Base in the wrong order.)
transfer_Swapped(s, from, to, amount, proofs) ==
    LET r0 == when_not_paused(s)
    IN  IF r0.res # "ok" THEN r0
        ELSE Base_transfer(s, to, from, amount, proofs)

\* FungibleToken::transfer(e, from, to, amount)
transfer(s, from, to, amount, proofs) ==
    LET r0 == when_not_paused(s)
    IN  IF r0.res # "ok" THEN r0
        ELSE Base_transfer(s, from, to, amount, proofs)

\* (Mutant: transfer_from handing spender and from to Base in the wrong order.)
transfer_from_Swapped(s, sp, from, to, amount, proofs, now) ==
    LET r0 == when_not_paused(s)
    IN  IF r0.res # "ok" THEN r0
        ELSE Base_transfer_from(s, from, sp, to, amount, proofs, now)

\* FungibleToken::transfer_from(e, spender, from, to, amount)
transfer_from(s, sp, from, to, amount, proofs, now) ==
    LET r0 == when_not_paused(s)
    IN  IF r0.res # "ok" THEN r0
        ELSE Base_transfer_from(s, sp, from, to, amount, proofs, now)

\* (Mutant: approve put behind the pause gate.)
approve_Gated(s, o, sp, amount, live_until, proofs) ==
    LET r0 == when_not_paused(s)
    IN  IF r0.res # "ok" THEN r0
        ELSE Base_approve(s, o, sp, amount, live_until, proofs)

\* (Mutant: approve handing owner and spender to Base in the wrong order.)
approve_Swapped(s, o, sp, amount, live_until, proofs) ==
    Base_approve(s, sp, o, amount, live_until, proofs)

\* FungibleToken::approve(e, owner, spender, amount, live_until_ledger)
approve(s, o, sp, amount, live_until, proofs) ==
    Base_approve(s, o, sp, amount, live_until, proofs)

\* (Mutant: burn without the pause gate.)
burn_Ungated(s, from, amount, proofs) == Base_burn(s, from, amount, proofs)

\* FungibleBurnable::burn(e, from, amount)
burn(s, from, amount, proofs) ==
    LET r0 == when_not_paused(s)
    IN  IF r0.res # "ok" THEN r0
        ELSE Base_burn(s, from, amount, proofs)

\* (Mutant: burn_from handing spender and from to Base in the wrong order.)
burn_from_Swapped(s, sp, from, amount, proofs, now) ==
    LET r0 == when_not_paused(s)
    IN  IF r0.res # "ok" THEN r0
        ELSE Base_burn_from(s, from, sp, amount, proofs, now)

\* FungibleBurnable::burn_from(e, spender, from, amount)
burn_from(s, sp, from, amount, proofs, now) ==
    LET r0 == when_not_paused(s)
    IN  IF r0.res # "ok" THEN r0
        ELSE Base_burn_from(s, sp, from, amount, proofs, now)

\* --------------------------------------------------- read-only entrypoints
\* A read returns the value v and leaves the working copy s as it found it.
Returns(v, s) == [res |-> "ok", st |-> s, val |-> v]

\* pausable::paused(e)
pausable_paused(s) == Returns(s.paused, s)

\* Base::total_supply(e)
Base_total_supply(s) == Returns(s.total_supply, s)

\* Base::balance(e, account)
Base_balance(s, account) == Returns(s.balances[account], s)

\* Base::allowance(e, owner, spender): the amount stored under
\* (owner, spender), whatever the ledger sequence is.
Base_allowance(s, o, sp) == Returns(s.allowances[<<o, sp>>].amount, s)

\* Base::decimals(e) / Base::name(e) / Base::symbol(e)
Base_decimals(s) == Returns(s.metadata.decimals, s)
Base_name(s) == Returns(s.metadata.name, s)
Base_symbol(s) == Returns(s.metadata.symbol, s)

\* Pausable::paused(e)
Pausable_paused(s) == pausable_paused(s)

\* FungibleToken::total_supply(e)
FungibleToken_total_supply(s) == Base_total_supply(s)

\* (Mutant: the balance read put behind the pause gate.)
FungibleToken_balance_Gated(s, account) ==
    LET r0 == when_not_paused(s)
    IN  IF r0.res # "ok" THEN r0 ELSE Base_balance(s, account)

\* FungibleToken::balance(e, account)
FungibleToken_balance(s, account) == Base_balance(s, account)

\* FungibleToken::allowance(e, owner, spender)
FungibleToken_allowance(s, o, sp) == Base_allowance(s, o, sp)

\* FungibleToken::decimals(e) / name(e) / symbol(e)
FungibleToken_decimals(s) == Base_decimals(s)
FungibleToken_name(s) == Base_name(s)
FungibleToken_symbol(s) == Base_symbol(s)

\* ------------------------------------------------------------ invocations
\* An invocation: the entrypoint, its arguments and the proofs it carries.
Call(op, a1, a2, a3, amount, n, h, proofs) ==
    [op |-> op, a1 |-> a1, a2 |-> a2, a3 |-> a3, amount |-> amount, n |-> n,
     hash |-> h, proofs |-> proofs]

\* approve is exercised between distinct identities.
ApprovePairs == {ab \in Addr \X Addr : ab[1] # ab[2]}

MintCalls ==
    {Call("mint", a, None, None, m, 0, "v0", p) :
         a \in Addr, m \in Amounts, p \in Proofs}
UpgradeCalls ==
    {Call("upgrade", None, None, None, 0, 0, h, p) : h \in Hashes, p \in Proofs}
PauseCalls ==
    {Call("pause", a, None, None, 0, 0, "v0", p) : a \in Addr, p \in Proofs}
UnpauseCalls ==
    {Call("unpause", a, None, None, 0, 0, "v0", p) : a \in Addr, p \in Proofs}
TransferCalls ==
    {Call("transfer", a, b, None, m, 0, "v0", p) :
         a \in Addr, b \in Addr, m \in Amounts, p \in Proofs}
TransferFromCalls ==
    {Call("transfer_from", a, b, c, m, 0, "v0", p) :
         a \in Addr, b \in Addr, c \in Addr, m \in Amounts, p \in Proofs}
ApproveCalls ==
    {Call("approve", ab[1], ab[2], None, m, n, "v0", p) :
         ab \in ApprovePairs, m \in Amounts, n \in Ledgers, p \in Proofs}
BurnCalls ==
    {Call("burn", a, None, None, m, 0, "v0", p) :
         a \in Addr, m \in Amounts, p \in Proofs}
BurnFromCalls ==
    {Call("burn_from", a, b, None, m, 0, "v0", p) :
         a \in Addr, b \in Addr, m \in Amounts, p \in Proofs}

\* The read-only calls; a read asks for no proof, whatever it carries.
ReadCalls ==
    {Call(op, None, None, None, 0, 0, "v0", p) :
         op \in {"paused", "total_supply", "decimals", "name", "symbol"},
         p \in Proofs}
    \cup {Call("balance", a, None, None, 0, 0, "v0", p) :
              a \in Addr, p \in Proofs}
    \cup {Call("allowance", a, b, None, 0, 0, "v0", p) :
              a \in Addr, b \in Addr, p \in Proofs}

GatedCalls ==
    MintCalls \cup TransferCalls \cup TransferFromCalls \cup BurnCalls
        \cup BurnFromCalls
PrivilegedCalls == MintCalls \cup PauseCalls \cup UnpauseCalls \cup UpgradeCalls

\* The body of the entrypoint c names, run on storage s at ledger sequence now.
Run(c, s, now) ==
    CASE c.op = "mint" -> mint(s, c.a1, c.amount, c.proofs)
      [] c.op = "upgrade" -> upgrade(s, c.hash, c.proofs)
      [] c.op = "pause" -> pause(s, c.a1, c.proofs)
      [] c.op = "unpause" -> unpause(s, c.a1, c.proofs)
      [] c.op = "transfer" -> transfer(s, c.a1, c.a2, c.amount, c.proofs)
      [] c.op = "transfer_from" ->
             transfer_from(s, c.a1, c.a2, c.a3, c.amount, c.proofs, now)
      [] c.op = "approve" -> approve(s, c.a1, c.a2, c.amount, c.n, c.proofs)
      [] c.op = "burn" -> burn(s, c.a1, c.amount, c.proofs)
      [] c.op = "burn_from" -> burn_from(s, c.a1, c.a2, c.amount, c.proofs, now)
      [] c.op = "paused" -> Pausable_paused(s)
      [] c.op = "total_supply" -> FungibleToken_total_supply(s)
      [] c.op = "balance" -> FungibleToken_balance(s, c.a1)
      [] c.op = "allowance" -> FungibleToken_allowance(s, c.a1, c.a2)
      [] c.op = "decimals" -> FungibleToken_decimals(s)
      [] c.op = "name" -> FungibleToken_name(s)
      [] c.op = "symbol" -> FungibleToken_symbol(s)

\* The invocation as the host runs it: commit on success, roll back on panic.
Exec(c, s, now) == Invoke(Run(c, s, now), s)

\* ----------------------------------------------------------------- actions
Commit(s) == store' = s

\* The result of an invocation, as its caller receives it.
\* spent is the amount a successful transfer_from / burn_from moved (else 0).
Result(op, res, was_paused, amount) ==
    [op |-> op, res |-> res, was_paused |-> was_paused, spent |-> amount]
NoResult == Result("none", "ok", FALSE, 0)

\* The amount invocation c spends under an allowance when its result is res.
SpentBy(c, res) ==
    IF res = "ok" /\ c.op \in {"transfer_from", "burn_from"} THEN c.amount ELSE 0

\* The allowance audit, kept beside the contract from the calls that succeed:
\* approve opens a new budget, transfer_from and burn_from draw on it.
Audit(c, res) ==
    IF res = "ok" /\ c.op = "approve"
    THEN budget' = [budget EXCEPT ![<<c.a1, c.a2>>] = c.amount]
    ELSE IF res = "ok" /\ c.op \in {"transfer_from", "burn_from"}
    THEN budget' = [budget EXCEPT ![<<c.a2, c.a1>>] = @ - c.amount]
    ELSE UNCHANGED budget

Init ==
    /\ deployed = FALSE
    /\ store = EmptyStore
    /\ ledger = 0
    /\ last = NoResult
    /\ budget = [p \in Addr \X Addr |-> 0]

\* Deployment: __constructor(owner, initial_supply) runs once; a panicking
\* constructor leaves no contract.
Construct ==
    /\ ~deployed
    /\ last = NoResult
    /\ \E o \in Addr, m \in Amounts :
         \E r \in {Invoke(constructor(Store, o, m), Store)} :
             /\ Commit(r.st)
             /\ deployed' = (r.res = "ok")
             /\ last' = Result("construct", r.res, FALSE, 0)
    /\ UNCHANGED <<ledger, budget>>

\* One invocation, out of calls, on the deployed contract, run to completion.
Entry(calls) ==
    /\ deployed
    /\ last = NoResult
    /\ \E c \in calls :
         \E r \in {Exec(c, Store, ledger)} :
             /\ Commit(r.st)
             /\ last' = Result(c.op, r.res, paused, SpentBy(c, r.res))
             /\ Audit(c, r.res)
    /\ UNCHANGED <<deployed, ledger>>

Mint == Entry(MintCalls)
Upgrade == Entry(UpgradeCalls)
Pause == Entry(PauseCalls)
Unpause == Entry(UnpauseCalls)
Transfer == Entry(TransferCalls)
TransferFrom == Entry(TransferFromCalls)
Approve == Entry(ApproveCalls)
Burn == Entry(BurnCalls)
BurnFrom == Entry(BurnFromCalls)
Read == Entry(ReadCalls)

\* The invocation's result is handed to its caller; the host takes the next one.
Return ==
    /\ last # NoResult
    /\ last' = NoResult
    /\ UNCHANGED <<deployed, store, ledger, budget>>

\* The host closes a ledger: the sequence counter advances.
AdvanceLedger ==
    /\ deployed
    /\ last = NoResult
    /\ ledger < MaxLedger
    /\ ledger' = ledger + 1
    /\ UNCHANGED <<deployed, store, last, budget>>

Next ==
    \/ Construct
    \/ Mint
    \/ Upgrade
    \/ Pause
    \/ Unpause
    \/ Transfer
    \/ TransferFrom
    \/ Approve
    \/ Burn
    \/ BurnFrom
    \/ Read
    \/ Return
    \/ AdvanceLedger

Spec == Init /\ [][Next]_vars

\* ------------------------------------------------------------------ helpers
RECURSIVE SumOver(_, _)
SumOver(f, S) ==
    IF S = {} THEN 0
    ELSE LET a == CHOOSE x \in S : TRUE
         IN  f[a] + SumOver(f, S \ {a})

\* The host is ready to take an invocation of the deployed contract.
Idle == deployed /\ last = NoResult

\* The outcome invocation c would have in the current state: its result and the
\* persisted state it leaves (a one-element set, to bind it with a quantifier).
Outcome(c) == {Exec(c, Store, ledger)}

\* The identity making invocation c: the one whose proof it carries.
MadeBy(c, a) == c.proofs = {a}

\* What a gated call needs besides an Active contract, on storage s at ledger now.
Live(al, now) == al.live_until >= now
OtherPreconditions(c, s, now) ==
    /\ c.amount >= 0
    /\ CASE c.op = "mint" ->
               /\ s.owner \in c.proofs
               /\ s.total_supply + c.amount <= I128_MAX
         [] c.op = "transfer" ->
               /\ c.a1 \in c.proofs
               /\ s.balances[c.a1] >= c.amount
         [] c.op = "burn" ->
               /\ c.a1 \in c.proofs
               /\ s.balances[c.a1] >= c.amount
         [] c.op \in {"transfer_from", "burn_from"} ->
               /\ c.a1 \in c.proofs
               /\ Live(s.allowances[<<c.a2, c.a1>>], now)
               /\ s.allowances[<<c.a2, c.a1>>].amount >= c.amount
               /\ s.balances[c.a2] >= c.amount

\* The spec's Unauthorized: the authorization oracle rejected the proof
\* (require_auth) or the proven caller is not the owner (error Unauthorized).
IsUnauthorized(res) == res \in {"Unauthorized", "AuthFailed"}

\* ------------------------------------------------------------------- claims

\* C1: in every reachable state total_supply() equals the sum of balance(x)
\* over all holders x.
C1_SupplyIsSumOfBalances == total_supply = SumOver(balances, Addr)

\* C1 witness: tokens were minted, spread over two holders, and a burn went
\* through.
C1_Witness ==
    /\ last = Result("burn", "ok", FALSE, 0)
    /\ \E a \in Addr, b \in Addr : a # b /\ balances[a] > 0 /\ balances[b] > 0

C3_PauseGate ==
    /\ (Idle /\ paused) =>
          \A c \in GatedCalls : \A r \in Outcome(c) :
              /\ r.res = "ContractPaused"
              /\ r.st = Store
    /\ last = Result("unpause", "ok", TRUE, 0) =>
          /\ ~paused
          /\ \A c \in GatedCalls :
                OtherPreconditions(c, Store, ledger) =>
                    Exec(c, Store, ledger).res = "ok"

\* C3 witness: a transfer the holder could otherwise make was refused because
\* the contract is paused.
C3_Witness ==
    /\ paused
    /\ last = Result("transfer", "ContractPaused", TRUE, 0)
    /\ \E a \in Addr : balances[a] > 0

\* C4 as stated: a privileged call made by an identity other than the owner
\* fails Unauthorized and changes no state.
C4_Original ==
    Idle =>
        \A c \in PrivilegedCalls, a \in Addr \ {owner} :
            MadeBy(c, a) =>
                \A r \in Outcome(c) :
                    /\ IsUnauthorized(r.res)
                    /\ r.st = Store

\* C4 amended: such a call fails and changes no state; it fails Unauthorized
\* except for mint while paused, which fails ContractPaused.
C4_NonOwnerRejected ==
    Idle =>
        \A c \in PrivilegedCalls, a \in Addr \ {owner} :
            MadeBy(c, a) =>
                \A r \in Outcome(c) :
                    /\ r.st = Store
                    /\ IF c.op = "mint" /\ paused
                       THEN r.res = "ContractPaused"
                       ELSE IsUnauthorized(r.res)
                    /\ (c.op \in {"pause", "unpause"} /\ c.a1 = a) =>
                           r.res = "Unauthorized"

\* C4 witness: pause was called by a proven identity that is not the owner.
C4_Witness ==
    /\ last = Result("pause", "Unauthorized", FALSE, 0)
    /\ ~paused

\* The proven spender sp's call op (transfer_from or burn_from) that spends k
\* of from's tokens (to the account to, for transfer_from).
SpendBy(op, sp, from, to, k) ==
    IF op = "transfer_from"
    THEN Call(op, sp, from, to, k, 0, "v0", {sp})
    ELSE Call(op, sp, from, None, k, 0, "v0", {sp})

\* C5 as stated: a successful transfer_from decreases the allowance of
\* (from, spender) by exactly amount; a transfer_from by the proven spender
\* whose amount exceeds the stored non-expired allowance fails
\* InsufficientAllowance; the total spent under one approve never exceeds the
\* approved amount (the audit's budget never goes below zero).
C5_Original ==
    /\ \A p \in Addr \X Addr : budget[p] >= 0
    /\ Idle =>
          \A c \in TransferFromCalls : \A r \in Outcome(c) :
                  LET al == allowances[<<c.a2, c.a1>>]
                  IN  /\ r.res = "ok" =>
                            r.st.allowances[<<c.a2, c.a1>>].amount
                                = al.amount - c.amount
                      /\ (c.a1 \in c.proofs /\ Live(al, ledger)
                             /\ c.amount > al.amount) =>
                            r.res = "InsufficientAllowance"

\* C5 amended: as stated, except that the over-spending transfer_from fails
\* InsufficientAllowance only while the contract is Active; while Paused it
\* fails ContractPaused.  Whatever proofs it carries it never succeeds.
C5_AllowanceSpentDown ==
    /\ \A p \in Addr \X Addr : budget[p] >= 0
    /\ Idle =>
          \A c \in TransferFromCalls : \A r \in Outcome(c) :
                  LET al == allowances[<<c.a2, c.a1>>]
                  IN  /\ r.res = "ok" =>
                            r.st.allowances[<<c.a2, c.a1>>].amount
                                = al.amount - c.amount
                      /\ (Live(al, ledger) /\ c.amount > al.amount) =>
                            /\ r.res # "ok"
                            /\ c.a1 \in c.proofs =>
                                  r.res = IF paused THEN "ContractPaused"
                                          ELSE "InsufficientAllowance"

\* C5 witness: a transfer_from of 2 has just gone through and used up what
\* the latest approve of its pair had granted.
C5_Witness ==
    /\ last = Result("transfer_from", "ok", FALSE, 2)
    /\ \E p \in Addr \X Addr :
          /\ budget[p] = 0
          /\ allowances[p].amount = 0
          /\ balances[p[2]] = 2

\* The persisted state a panicking invocation would leave without rollback.
DirtyAfter(c) == Run(c, Store, ledger).st

\* C6: an invocation that fails leaves the whole persisted state (owner, pause
\* flag, total supply, balances, allowances, metadata, code version) as it was.
C6_FailureChangesNothing ==
    [][(last' # last /\ last'.res # "ok") =>
          /\ owner' = owner
          /\ paused' = paused
          /\ total_supply' = total_supply
          /\ balances' = balances
          /\ allowances' = allowances
          /\ metadata' = metadata
          /\ code_version' = code_version]_vars

\* C6 witness: a transfer_from passed its allowance check, spent the allowance
\* in its working copy and then failed its balance check.
C6_Witness ==
    /\ last = Result("transfer_from", "InsufficientBalance", FALSE, 0)
    /\ \E c \in TransferFromCalls :
          /\ Run(c, Store, ledger).res = "InsufficientBalance"
          /\ DirtyAfter(c).allowances # allowances

\* The owner's unpause call.
OwnerUnpause(s) == Call("unpause", s.owner, None, None, 0, 0, "v0", {s.owner})

\* C7: while paused, approve with the owner's proof succeeds and stores the
\* allowance, and after the owner's unpause a transfer_from within that
\* allowance (live, and covered by the balance) succeeds.
C7_ApproveNotGated ==
    (Idle /\ paused) =>
        \A c \in ApproveCalls :
            (c.a1 \in c.proofs /\ c.amount >= 0) =>
                \A r \in Outcome(c) :
                \A u \in {Exec(OwnerUnpause(r.st), r.st, ledger)} :
                    /\ r.res = "ok"
                    /\ r.st.paused
                    /\ r.st.allowances[<<c.a1, c.a2>>]
                          = [amount |-> c.amount, live_until |-> c.n]
                    /\ u.res = "ok"
                    /\ \A to \in Addr, k \in 0 .. c.amount :
                          (c.n >= ledger /\ balances[c.a1] >= k) =>
                              Exec(SpendBy("transfer_from", c.a2, c.a1, to, k),
                                   u.st, ledger).res = "ok"

\* C7 witness: an approve went through on the paused contract and left a live,
\* positive allowance its owner's balance covers.
C7_Witness ==
    /\ paused
    /\ last = Result("approve", "ok", TRUE, 0)
    /\ \E p \in Addr \X Addr :
          /\ allowances[p].amount > 0
          /\ Live(allowances[p], ledger)
          /\ balances[p[1]] >= allowances[p].amount

\* C8: approve succeeds exactly when the owner's proof is there and the amount
\* is not negative (whatever the balance and the previous entry), then stores
\* exactly (amount, live_until) under (owner, spender) and changes nothing
\* else; with amount 0 nothing can be spent under (owner, spender) afterwards.
C8_ApproveOverwrites ==
    Idle =>
        \A c \in ApproveCalls : \A r \in Outcome(c) :
                    /\ r.res = "ok" <=> (c.a1 \in c.proofs /\ c.amount >= 0)
                    /\ r.res = "ok" =>
                          r.st = [Store EXCEPT !.allowances[<<c.a1, c.a2>>] =
                                     [amount |-> c.amount, live_until |-> c.n]]
                    /\ (r.res = "ok" /\ c.amount = 0) =>
                          \A op \in {"transfer_from", "burn_from"},
                             to \in Addr, k \in 1 .. I128_MAX :
                              Exec(SpendBy(op, c.a2, c.a1, to, k),
                                   r.st, ledger).res # "ok"

\* C8 witness: an approve went through whose amount exceeds its owner's
\* balance, while the other allowance stays in place.
C8_Witness ==
    /\ last.op = "approve" /\ last.res = "ok"
    /\ \E p \in Addr \X Addr, q \in Addr \X Addr :
          /\ p # q
          /\ allowances[p].amount > balances[p[1]]
          /\ allowances[q].amount > 0

\* C9: on the paused contract pause(caller) by the proven owner succeeds and
\* leaves the contract paused, and everything else as it was.
C9_PauseIdempotent ==
    (Idle /\ paused) =>
        \A c \in PauseCalls :
            (c.a1 = owner /\ owner \in c.proofs) =>
                \A r \in Outcome(c) : r.res = "ok" /\ r.st = Store

\* C9 witness: pause went through on a contract that was already paused.
C9_Witness ==
    /\ paused
    /\ last = Result("pause", "ok", TRUE, 0)

\* C10: upgrade(new_code_id) by the proven owner succeeds whether the contract
\* is Active or Paused and changes the code version and nothing else.
C10_UpgradeOnlyCode ==
    Idle =>
        \A c \in UpgradeCalls :
            owner \in c.proofs =>
                \A r \in Outcome(c) :
                    /\ r.res = "ok"
                    /\ r.st = [Store EXCEPT !.code_version = c.hash]

\* C10 witness: the paused contract, holding balances and an allowance, was
\* upgraded to new code.
C10_Witness ==
    /\ paused
    /\ last = Result("upgrade", "ok", TRUE, 0)
    /\ code_version = "v1"
    /\ total_supply > 0
    /\ \E p \in Addr \X Addr : allowances[p].amount > 0

\* The balances after amount has gone from the account from to the account to.
Moved(bal, from, to, amount) ==
    [x \in Addr |-> bal[x] - (IF x = from THEN amount ELSE 0)
                          + (IF x = to THEN amount ELSE 0)]

C12_BurnDestroys ==
    (Idle /\ ~paused) =>
        /\ \A c \in BurnCalls : \A r \in Outcome(c) :
              /\ r.res = "ok" <=>
                    /\ c.a1 \in c.proofs
                    /\ c.amount >= 0
                    /\ balances[c.a1] >= c.amount
              /\ r.res = "ok" =>
                    r.st = [Store EXCEPT !.balances[c.a1] = @ - c.amount,
                                         !.total_supply = @ - c.amount]
              /\ (c.a1 \in c.proofs /\ c.amount > balances[c.a1]) =>
                    r.res = "InsufficientBalance"
        /\ \A c \in BurnFromCalls : \A r \in Outcome(c) :
              LET al == allowances[<<c.a2, c.a1>>]
                  allowed == /\ c.a1 \in c.proofs
                             /\ Live(al, ledger)
                             /\ al.amount >= c.amount
              IN  /\ r.res = "ok" <=>
                        /\ allowed
                        /\ c.amount >= 0
                        /\ balances[c.a2] >= c.amount
                  /\ r.res = "ok" =>
                        r.st = [Store EXCEPT
                                   !.balances[c.a2] = @ - c.amount,
                                   !.total_supply = @ - c.amount,
                                   !.allowances[<<c.a2, c.a1>>].amount =
                                       @ - c.amount]
                  /\ (allowed /\ c.amount > balances[c.a2]) =>
                        r.res = "InsufficientBalance"

\* C12 witness: a burn_from destroyed one token of a holder who keeps some, and
\* left part of the allowance it drew on.
C12_Witness ==
    /\ last = Result("burn_from", "ok", FALSE, 1)
    /\ \E p \in Addr \X Addr :
          /\ allowances[p].amount = 1
          /\ budget[p] = 1
          /\ balances[p[1]] = 1
          /\ total_supply = 1

\* C13: mint(account, amount) by the proven owner while Active succeeds iff
\* amount >= 0 and neither balance(account) + amount nor total supply + amount
\* exceeds I128_MAX; it then adds exactly amount to both and changes nothing
\* else; when a sum would exceed I128_MAX it fails ArithmeticOverflow and
\* nothing changes.  No stored amount ever lies outside 0 .. I128_MAX.
C13_MintChecked ==
    /\ total_supply \in 0 .. I128_MAX
    /\ \A a \in Addr : balances[a] \in 0 .. I128_MAX
    /\ (Idle /\ ~paused) =>
          \A c \in MintCalls :
              owner \in c.proofs =>
                  \A r \in Outcome(c) :
                      /\ r.res = "ok" <=>
                            /\ c.amount >= 0
                            /\ total_supply + c.amount <= I128_MAX
                            /\ balances[c.a1] + c.amount <= I128_MAX
                      /\ r.res = "ok" =>
                            r.st = [Store EXCEPT
                                       !.balances[c.a1] = @ + c.amount,
                                       !.total_supply = @ + c.amount]
                      /\ (c.amount >= 0
                             /\ (total_supply + c.amount > I128_MAX
                                   \/ balances[c.a1] + c.amount > I128_MAX)) =>
                            r.res = "ArithmeticOverflow"
                      /\ r.res # "ok" => r.st = Store

\* C13 witness: a mint by the owner was refused because the total supply would
\* have passed I128_MAX, on a contract whose supply is spread over two holders.
C13_Witness ==
    /\ last = Result("mint", "ArithmeticOverflow", FALSE, 0)
    /\ total_supply > 0
    /\ \A a \in Addr : balances[a] < total_supply

\* C14: a construct(owner, initial_supply) that succeeds leaves
\* balance(owner) = initial_supply, total_supply() = initial_supply, every
\* other balance 0, the stored Owner = owner and paused() false (and no
\* allowance); this is the state the first invocation finds.
C14_AfterConstruct ==
    /\ (~deployed /\ last = NoResult) =>
          \A o \in Addr, m \in Amounts :
              \A r \in {Invoke(constructor(Store, o, m), Store)} :
                  r.res = "ok" =>
                      /\ r.st.owner = o
                      /\ r.st.paused = FALSE
                      /\ r.st.total_supply = m
                      /\ r.st.balances = [x \in Addr |-> IF x = o THEN m ELSE 0]
                      /\ r.st.allowances = EmptyStore.allowances
    /\ (last.op = "construct" /\ last.res = "ok") =>
          /\ deployed
          /\ owner \in Addr
          /\ ~paused
          /\ balances[owner] = total_supply
          /\ \A x \in Addr \ {owner} : balances[x] = 0

\* C14 witness: the contract has just been constructed with a positive
\* initial supply.
C14_Witness ==
    /\ last = Result("construct", "ok", FALSE, 0)
    /\ total_supply = I128_MAX
    /\ owner = "B"

\* The value the read c is to return from the persisted state s.
Stored(c, s) ==
    CASE c.op = "paused" -> s.paused
      [] c.op = "total_supply" -> s.total_supply
      [] c.op = "balance" -> s.balances[c.a1]
      [] c.op = "allowance" -> s.allowances[<<c.a1, c.a2>>].amount
      [] c.op = "decimals" -> s.metadata.decimals
      [] c.op = "name" -> s.metadata.name
      [] c.op = "symbol" -> s.metadata.symbol

\* C15: total_supply, balance, allowance, decimals, name, symbol and paused
\* succeed whether the contract is Active or Paused and whatever proof the
\* invocation carries, return the stored value and leave the whole persisted
\* state as it was.
C15_ReadsChangeNothing ==
    /\ Idle =>
          \A c \in ReadCalls : \A r \in Outcome(c) :
              /\ r.res = "ok"
              /\ r.st = Store
              /\ r.val = Stored(c, Store)
    /\ (deployed /\ last.op \in {c.op : c \in ReadCalls}) => last.res = "ok"

\* C15 witness: balance was read on the paused contract, which holds tokens
\* and an allowance.
C15_Witness ==
    /\ paused
    /\ last = Result("balance", "ok", TRUE, 0)
    /\ total_supply > 0
    /\ \E p \in Addr \X Addr : allowances[p].amount > 0

\* C16: while Active a transfer_from or burn_from by the proven spender, of a
\* non-negative amount the allowance and the balance cover, succeeds when the
\* allowance's expiry is at or after the current ledger sequence (expiry =
\* current included); when the expiry is before it the call fails
\* AllowanceExpired and the stored allowance stays as it was.
C16_ExpiryDecides ==
    (Idle /\ ~paused) =>
        \A c \in TransferFromCalls \cup BurnFromCalls :
            (c.a1 \in c.proofs /\ c.amount >= 0) =>
                \A r \in Outcome(c) :
                    LET al == allowances[<<c.a2, c.a1>>]
                    IN  /\ (al.live_until >= ledger /\ al.amount >= c.amount
                               /\ balances[c.a2] >= c.amount) =>
                              r.res = "ok"
                        /\ al.live_until < ledger =>
                              /\ r.res = "AllowanceExpired"
                              /\ r.st.allowances = allowances

\* C16 witness: a transfer_from was refused because the allowance, whose
\* amount is still stored, has expired.
C16_Witness ==
    /\ last = Result("transfer_from", "AllowanceExpired", FALSE, 0)
    /\ \E p \in Addr \X Addr :
          /\ allowances[p].amount > 0
          /\ allowances[p].live_until < ledger
          /\ balances[p[1]] >= allowances[p].amount

\* C17: allowance(o, s) returns the amount stored for (o, s) whatever the
\* ledger sequence is, an expired entry's positive amount included.
C17_AllowanceReadsStored ==
    Idle =>
        \A c \in ReadCalls :
            c.op = "allowance" =>
                \A r \in Outcome(c) :
                    /\ r.res = "ok"
                    /\ r.val = allowances[<<c.a1, c.a2>>].amount

\* C17 witness: allowance was read while an entry with a positive amount has
\* expired.
C17_Witness ==
    /\ last.op = "allowance" /\ last.res = "ok"
    /\ \E p \in Addr \X Addr :
          /\ allowances[p].amount > 0
          /\ allowances[p].live_until < ledger

\* C18: mint's pause check runs before its owner check: while Paused a mint
\* fails ContractPaused whether or not it carries the owner's proof; while
\* Active it fails Unauthorized exactly when the owner's proof is missing.
C18_MintPauseFirst ==
    Idle =>
        \A c \in MintCalls : \A r \in Outcome(c) :
            /\ paused => (r.res = "ContractPaused" /\ r.st = Store)
            /\ ~paused =>
                  /\ r.res # "ContractPaused"
                  /\ IsUnauthorized(r.res) <=> owner \notin c.proofs

\* C18 witness: a mint was refused on the paused contract.
C18_Witness ==
    /\ paused
    /\ last = Result("mint", "ContractPaused", TRUE, 0)

\* C19: pause(caller) and unpause(caller) with caller = the stored Owner but
\* without the owner's proof fail and leave the pause flag (and everything
\* else) as it was.
C19_OwnerAddressNotEnough ==
    Idle =>
        \A c \in PauseCalls \cup UnpauseCalls :
            (c.a1 = owner /\ owner \notin c.proofs) =>
                \A r \in Outcome(c) :
                    /\ IsUnauthorized(r.res)
                    /\ r.st.paused = paused
                    /\ r.st = Store

\* C19 witness: an unpause was refused on the paused contract for want of the
\* caller's proof.
C19_Witness ==
    /\ paused
    /\ last = Result("unpause", "AuthFailed", TRUE, 0)

\* C20: a step changes the pause flag only when it is a successful pause (to
\* Paused) or a successful unpause (to Active); a successful pause leaves the
\* contract Paused, a successful unpause leaves it Active, and a pause or
\* unpause changes nothing in the persisted state but the flag.
C20_OnlyPauseUnpauseFlipFlag ==
    [][/\ paused' # paused =>
             /\ last'.res = "ok"
             /\ \/ last'.op = "pause" /\ paused'
                \/ last'.op = "unpause" /\ ~paused'
       /\ (last' # last /\ last'.op \in {"pause", "unpause"}) =>
             /\ store' = [store EXCEPT !.paused = paused']
             /\ last'.res = "ok" => paused' = (last'.op = "pause")]_vars

\* C20 witness: the owner has just unpaused a contract that holds tokens and
\* an allowance.
C20_Witness ==
    /\ ~paused
    /\ last = Result("unpause", "ok", TRUE, 0)
    /\ total_supply > 0
    /\ \E p \in Addr \X Addr : allowances[p].amount > 0

====
